---- MODULE Spec2Model ----
(***************************************************************************)
(* Guild raid dashboard: the aggregation-and-comparison engine             *)
(* (load_table, aggregate, compute_comparison) and the request that main   *)
(* serves with it.  The engine is the same text in dashboard.py and        *)
(* dashboard_streamlit.py; main is followed in both (variant), from the    *)
(* title to its end: the test for the database file, the listing of the    *)
(* tables and the selectboxes' initial values, the loading of the two      *)
(* selected tables, the participation table with its rounds, the           *)
(* comparison, and the 21/21 section.  The state keeps the connection,     *)
(* the queries issued and what has been rendered.  What main only          *)
(* formats or draws (fmt_pct, icons, charts, the sums of the 21/21         *)
(* section) is left out.                                                   *)
(*                                                                         *)
(* The selectboxes.  sel_last and sel_prev are the values the selectboxes  *)
(* start with.  db_last and db_prev are the rows of the two tables the     *)
(* request reads, whichever they are: any two tables of the database, the  *)
(* same table when there is only one.                                      *)
(*                                                                         *)
(* Numbers.  Damage is an int64 in the program.  TLC's integers stop at    *)
(* 2^31, and the sort key of compute_comparison compares against 1e18, so  *)
(* an integer v is kept as the pair <<hi, lo>> with v = hi * 10^16 + lo    *)
(* and |lo| < 10^16.  Sums and differences are componentwise, products are *)
(* polynomials in 10^16, and the sign of such a polynomial with            *)
(* coefficients below 10^16 is the sign of its leading non-zero            *)
(* coefficient, so every comparison below is exact.  pct_change is a       *)
(* float64 in the program; it is kept here as the exact quotient num/den   *)
(* (den > 0) or the infinity sentinel, i.e. floating-point rounding is not *)
(* modelled (rounding is monotone and keeps the sign, so labels and the    *)
(* sorted order are those of the exact values, up to ties).  The values    *)
(* used stay far inside int64, whose overflow is not modelled.             *)
(***************************************************************************)
EXTENDS Integers, Sequences, FiniteSets, TLC

VARIABLES
    variant,            \* "local": dashboard.py, "cloud": dashboard_streamlit.py
    db_exists,          \* os.path.exists(db_path)
    db_names,           \* names of the record tables of the database
    db_last,            \* rows of the table selected as sel_last (username, damage, rounds as stored)
    db_prev,            \* rows of the table selected as sel_prev
    pc,                 \* position of main
    conn,               \* the connection held in conn: "none", "open", "closed"
    opened,             \* number of sqlite3.connect calls so far
    queries,            \* the queries issued so far, each with the state of conn when issued
    outputs,            \* what has been rendered so far
    error,              \* why the request stopped early, "" if it did not
    tables,             \* get_record_tables(conn)
    sel_last,           \* initial value of the selectbox "Tabla ultima"
    sel_prev,           \* initial value of the selectbox "Tabla anterior"
    top_n,              \* sidebar number_input "Top N"
    last_df,            \* load_table(conn, sel_last)
    prev_df,            \* load_table(conn, sel_prev)
    agg_last,           \* aggregate(last_df) sorted by damage, descending
    display,            \* participation rows selected by top_n
    display_rounds,     \* display after the merge with the rounds, as rendered
    comp,               \* compute_comparison(prev_df, last_df)
    comp_display_show,  \* comparison rows shown
    active_players,     \* rows of the 21/21 section
    active_participation \* total_active * 100 / len(agg_last), as num / den

vars == <<variant, db_exists, db_names, db_last, db_prev, pc, conn, opened, queries,
          outputs, error, tables, sel_last, sel_prev, top_n, last_df, prev_df,
          agg_last, display, display_rounds, comp, comp_display_show,
          active_players, active_participation>>

----------------------------------------------------------------------------
(* Bounds of the model *)

MaxRows == 3            \* rows of the two selected tables together
MaxTopN == 1            \* largest value entered for top_n, besides its default
MaxTables == 3          \* record tables of the database
MaxRequestRows == 2     \* as MaxRows, for the requests of SpecMain

----------------------------------------------------------------------------
(* Integers as hi * 10^16 + lo *)

Sgn(x) == IF x > 0 THEN 1 ELSE IF x < 0 THEN -1 ELSE 0

Zero == <<0, 0>>
One == <<0, 1>>

NAdd(a, b) == <<a[1] + b[1], a[2] + b[2]>>
NSub(a, b) == <<a[1] - b[1], a[2] - b[2]>>
NScale(k, a) == <<k * a[1], k * a[2]>>
NSign(a) == IF a[1] # 0 THEN Sgn(a[1]) ELSE Sgn(a[2])
NLess(a, b) == NSign(NSub(a, b)) < 0

\* product of two integers: coefficients of 10^32, 10^16, 1
NMul(a, b) == <<a[1] * b[1], a[1] * b[2] + a[2] * b[1], a[2] * b[2]>>
PSign(p) == IF p[1] # 0 THEN Sgn(p[1])
            ELSE IF p[2] # 0 THEN Sgn(p[2]) ELSE Sgn(p[3])
PSub(p, q) == <<p[1] - q[1], p[2] - q[2], p[3] - q[3]>>

\* sign of x.num/x.den - y.num/y.den, both denominators positive
QCmp(x, y) == PSign(PSub(NMul(x.num, y.den), NMul(y.num, x.den)))

----------------------------------------------------------------------------
(* Strings: a username is a sequence of characters *)

Chars == {"a", "b", "f", "o", "r", "A", "B", "F", "O", "R"}

\* str.upper(), character by character
UpperChar(c) ==
    CASE c = "a" -> "A"
      [] c = "b" -> "B"
      [] c = "f" -> "F"
      [] c = "o" -> "O"
      [] c = "r" -> "R"
      [] OTHER -> c

\* as str_upper, without the normalisation
str_asis(s) == s

str_upper(s) == [i \in DOMAIN s |-> UpperChar(s[i])]

\* code point of a character, the order of Python's string comparison
Code(c) ==
    CASE c = "1" -> 49
      [] c = "2" -> 50
      [] c = "3" -> 51
      [] c = "4" -> 52
      [] c = "5" -> 53
      [] c = "A" -> 65
      [] c = "B" -> 66
      [] c = "F" -> 70
      [] c = "O" -> 79
      [] c = "R" -> 82
      [] c = "a" -> 97
      [] c = "b" -> 98
      [] c = "f" -> 102
      [] c = "o" -> 111
      [] c = "r" -> 114

RECURSIVE StrLess(_, _)
StrLess(s, t) ==
    IF t = <<>> THEN FALSE
    ELSE IF s = <<>> THEN TRUE
    ELSE IF Code(Head(s)) # Code(Head(t)) THEN Code(Head(s)) < Code(Head(t))
    ELSE StrLess(Tail(s), Tail(t))

\* the names of a set, in ascending order
RECURSIVE SortedNames(_)
SortedNames(S) ==
    IF S = {} THEN <<>>
    ELSE LET m == CHOOSE x \in S : \A y \in S \ {x} : StrLess(x, y)
         IN <<m>> \o SortedNames(S \ {m})

----------------------------------------------------------------------------
(* The damage column as stored in the table *)

NullDamage == [kind |-> "null", hi |-> 0, tenths |-> 0]          \* NULL
TextDamage == [kind |-> "text", hi |-> 0, tenths |-> 0]          \* "n/a"
\* the number h * 10^16 + t / 10
NumDamage(h, t) == [kind |-> "num", hi |-> h, tenths |-> t]

TruncDiv(a, b) == IF a >= 0 THEN a \div b ELSE -((-a) \div b)

\* pd.to_numeric(errors="coerce"): NaN for what does not parse
to_numeric(d) ==
    IF d.kind = "num" THEN [nan |-> FALSE, hi |-> d.hi, tenths |-> d.tenths]
    ELSE [nan |-> TRUE, hi |-> 0, tenths |-> 0]

fillna0(x) == IF x.nan THEN [nan |-> FALSE, hi |-> 0, tenths |-> 0] ELSE x

\* astype("int64") of a float: the fraction is dropped, towards zero
astype_int64(x) == <<x.hi, TruncDiv(x.tenths, 10)>>

\* as load_table, with dropna() in place of fillna(0)
load_table_dropna(table) ==
    LET kept == SelectSeq(table, LAMBDA r : ~to_numeric(r.damage).nan)
    IN [i \in DOMAIN kept |->
          [username |-> kept[i].username,
           damage |-> astype_int64(to_numeric(kept[i].damage)),
           name |-> str_upper(kept[i].username)]]

load_table(table) ==
    [i \in DOMAIN table |->
        [username |-> table[i].username,
         damage |-> astype_int64(fillna0(to_numeric(table[i].damage))),
         name |-> str_upper(table[i].username)]]

----------------------------------------------------------------------------
(* aggregate: df.groupby("name", as_index=False)["damage"].sum() *)

RECURSIVE SumDamage(_)
SumDamage(rows) ==
    IF rows = <<>> THEN Zero
    ELSE NAdd(Head(rows).damage, SumDamage(Tail(rows)))

group_keys(df) == {df[i].name : i \in DOMAIN df}

\* as group_sum, with first() in place of sum()
group_first(df, k) == Head(SelectSeq(df, LAMBDA r : r.name = k)).damage

group_sum(df, k) == SumDamage(SelectSeq(df, LAMBDA r : r.name = k))

aggregate(df) ==
    LET keys == SortedNames(group_keys(df))
    IN [i \in DOMAIN keys |-> [name |-> keys[i], damage |-> group_sum(df, keys[i])]]

----------------------------------------------------------------------------
(* Ordering rows: sort_values(..., ascending=False) *)

\* every arrangement of rows that is descending, geq being the set of pairs
\* <<i, j>> with rows[i] >= rows[j]; sort_values uses the default quicksort,
\* which is not stable, so rows that compare equal may come out in any
\* relative order
SortDescending(rows, geq) ==
    {[i \in DOMAIN rows |-> rows[q[i]]] :
        q \in {r \in Permutations(DOMAIN rows) :
                 \A i, j \in DOMAIN rows : i < j => <<r[i], r[j]>> \in geq}}

Min(a, b) == IF a < b THEN a ELSE b

\* as head, taking the rows from the end (DataFrame.tail)
head_from_end(df, n) == SubSeq(df, Len(df) - Min(n, Len(df)) + 1, Len(df))

\* DataFrame.head(n) for n > 0
head(df, n) == SubSeq(df, 1, Min(n, Len(df)))

----------------------------------------------------------------------------
(* compute_comparison *)

Infinity == [kind |-> "inf", num |-> Zero, den |-> One]          \* np.inf
Finite(n, d) == [kind |-> "fin", num |-> n, den |-> d]           \* n / d, d > 0
Float0 == Finite(Zero, One)                                       \* 0.0

HasName(agg, k) == \E i \in DOMAIN agg : agg[i].name = k
DamageOf(agg, k) == agg[CHOOSE i \in DOMAIN agg : agg[i].name = k].damage

\* as merge_outer, with how="right"
merge_right(a, b) ==
    LET keys == SortedNames({b[i].name : i \in DOMAIN b})
    IN [i \in DOMAIN keys |->
          [name |-> keys[i],
           prev_damage |-> IF HasName(a, keys[i]) THEN DamageOf(a, keys[i]) ELSE Zero,
           last_damage |-> DamageOf(b, keys[i])]]

\* as merge_outer, with how="inner"
merge_inner(a, b) ==
    LET keys == SortedNames({a[i].name : i \in DOMAIN a} \cap {b[i].name : i \in DOMAIN b})
    IN [i \in DOMAIN keys |->
          [name |-> keys[i],
           prev_damage |-> DamageOf(a, keys[i]),
           last_damage |-> DamageOf(b, keys[i])]]

\* pd.merge(a, b, on="name", how="outer").fillna(0), damages back to int64
merge_outer(a, b) ==
    LET keys == SortedNames({a[i].name : i \in DOMAIN a} \cup {b[i].name : i \in DOMAIN b})
    IN [i \in DOMAIN keys |->
          [name |-> keys[i],
           prev_damage |-> IF HasName(a, keys[i]) THEN DamageOf(a, keys[i]) ELSE Zero,
           last_damage |-> IF HasName(b, keys[i]) THEN DamageOf(b, keys[i]) ELSE Zero]]

\* as pct_row, with ls >= 0 for ls > 0
pct_row_ge(pv, ls) ==
    IF NSign(pv) > 0 THEN Finite(NScale(100, NSub(ls, pv)), pv)
    ELSE IF NSign(pv) = 0 /\ NSign(ls) >= 0 THEN Infinity
    ELSE Float0

\* as pct_row, with the difference taken the other way round
pct_row_swapped(pv, ls) ==
    IF NSign(pv) > 0 THEN Finite(NScale(100, NSub(pv, ls)), pv)
    ELSE IF NSign(pv) = 0 /\ NSign(ls) > 0 THEN Infinity
    ELSE Float0

pct_row(pv, ls) ==
    IF NSign(pv) > 0 THEN Finite(NScale(100, NSub(ls, pv)), pv)
    ELSE IF NSign(pv) = 0 /\ NSign(ls) > 0 THEN Infinity
    ELSE Float0

\* as label_row, with >= for >
label_row_ge(pct) ==
    IF pct.kind = "inf" THEN "new"
    ELSE IF QCmp(pct, Float0) >= 0 THEN "up"
    ELSE IF QCmp(pct, Float0) < 0 THEN "down"
    ELSE "same"

label_row(pct) ==
    IF pct.kind = "inf" THEN "new"
    ELSE IF QCmp(pct, Float0) > 0 THEN "up"
    ELSE IF QCmp(pct, Float0) < 0 THEN "down"
    ELSE "same"

\* 1e18 = 100 * 10^16, the value np.inf is replaced by in the sort key
InfSubstitute == Finite(<<100, 0>>, One)

sort_key(pct) == IF pct.kind = "inf" THEN InfSubstitute ELSE pct

KeyGeq(rows) ==
    {<<i, j>> \in (DOMAIN rows) \X (DOMAIN rows) :
        QCmp(sort_key(rows[i].pct_change), sort_key(rows[j].pct_change)) >= 0}

\* the merged frame with its pct_change and change columns, before sorting
labelled(prev, last) ==
    LET merged == merge_outer(aggregate(prev), aggregate(last))
    IN [i \in DOMAIN merged |->
          LET pct == pct_row(merged[i].prev_damage, merged[i].last_damage)
          IN [name |-> merged[i].name,
              prev_damage |-> merged[i].prev_damage,
              last_damage |-> merged[i].last_damage,
              pct_change |-> pct,
              change |-> label_row(pct)]]

\* the frames compute_comparison can return
compute_comparison(prev, last) ==
    SortDescending(labelled(prev, last), KeyGeq(labelled(prev, last)))

\* merged.apply(pct_row, axis=1) on a frame without rows: older pandas hands
\* back the frame itself, and assigning it to the single column pct_change
\* raises ValueError; newer pandas hands back an empty Series
apply_may_raise(prev, last) == labelled(prev, last) = <<>>

----------------------------------------------------------------------------
(* main: the request *)

DefaultTopN == 10

\* as path_exists, for a main that does not look for the file
path_exists_unchecked(exists) == TRUE

\* os.path.exists(db_path)
path_exists(exists) == exists

Max(a, b) == IF a > b THEN a ELSE b

Reverse(seq) == [i \in DOMAIN seq |-> seq[Len(seq) + 1 - i]]

\* dashboard.py: SELECT name FROM sqlite_master ... ORDER BY name
get_record_tables(names) == SortedNames(names)

\* dashboard_streamlit.py: SELECT name FROM sqlite_master ... ORDER BY name DESC
get_record_tables_desc(names) == Reverse(SortedNames(names))

\* selectbox("Tabla ultima", tables, index=len(tables)-1)
default_last(listed) == listed[Len(listed)]

\* selectbox("Tabla anterior", tables, index=max(0, len(tables)-2))
default_prev(listed) == listed[Max(0, Len(listed) - 2) + 1]

\* dashboard_streamlit.py closes conn once the tables are listed, dashboard.py
\* keeps it
conn_after_listing(v) == IF v = "cloud" THEN "closed" ELSE "open"

\* dashboard_streamlit.py: if last_df.empty or prev_df.empty
frames_empty(last, prev) == last = <<>> \/ prev = <<>>

\* agg_last: aggregate(last_df) by damage, descending, with the share of the total
DamageGeq(rows) ==
    {<<i, j>> \in (DOMAIN rows) \X (DOMAIN rows) : ~NLess(rows[i].damage, rows[j].damage)}

with_pct(agg, total) ==
    [i \in DOMAIN agg |->
        [name |-> agg[i].name,
         damage |-> agg[i].damage,
         pct |-> IF NSign(total) > 0 THEN Finite(NScale(100, agg[i].damage), total)
                 ELSE Float0]]

\* the rounds column as stored: a text such as "21/21", or NULL
NullRounds == "NULL"
AllRounds == "21/21"

\* rounds_data['rounds'].fillna('N/A')
fillna_rounds(r) == IF r = NullRounds THEN "N/A" ELSE r

\* SELECT username, rounds FROM sel_last, with the name in upper case
rounds_data(table) ==
    [i \in DOMAIN table |->
        [name |-> str_upper(table[i].username),
         rounds |-> fillna_rounds(table[i].rounds)]]

\* left.merge(right[['name', 'rounds']], on='name', how='left') and
\* fillna('N/A'): the rows of left in their order, each once per row of right
\* with its name, or once with N/A if right has none
RECURSIVE merge_left(_, _)
merge_left(left, right) ==
    IF left = <<>> THEN <<>>
    ELSE LET l == Head(left)
             m == SelectSeq(right, LAMBDA r : r.name = l.name)
             joined == IF m = <<>>
                       THEN <<[name |-> l.name, damage |-> l.damage,
                               pct |-> l.pct, rounds |-> "N/A"]>>
                       ELSE [i \in DOMAIN m |->
                               [name |-> l.name, damage |-> l.damage,
                                pct |-> l.pct, rounds |-> m[i].rounds]]
         IN joined \o merge_left(Tail(left), right)

\* rounds_data[rounds_data['rounds'] == '21/21'] of SELECT username, rounds,
\* damage: the damage is the stored value, not passed through to_numeric
active_rows(table) ==
    SelectSeq(table, LAMBDA r : fillna_rounds(r.rounds) = AllRounds)

\* the damage column of that query is of dtype object (str, int, None as
\* they come) if some row of the table holds a text or no row holds a number;
\* with numbers and NULLs only it is float64 and NULL is NaN
object_dtype(table) ==
    \/ \E i \in DOMAIN table : table[i].damage.kind = "text"
    \/ \A i \in DOMAIN table : table[i].damage.kind = "null"

\* sort_values('damage') and apply(lambda x: f"{x:,}") on the rows of the
\* section: comparing a str with an int raises TypeError, f"{x:,}" raises
\* ValueError for a str and TypeError for None; NaN is formatted as nan
active_raises(table) ==
    \E i \in DOMAIN active_rows(table) :
        LET d == active_rows(table)[i].damage
        IN \/ d.kind = "text"
           \/ d.kind = "null" /\ object_dtype(table)

\* descending order of the stored damage, NaN last in the order of the table
StoredGeq(rows) ==
    {<<i, j>> \in (DOMAIN rows) \X (DOMAIN rows) :
        LET a == rows[i].damage
            b == rows[j].damage
        IN IF b.kind # "num" THEN a.kind = "num" \/ i <= j
           ELSE a.kind = "num" /\ ~NLess(<<a.hi, a.tenths>>, <<b.hi, b.tenths>>)}

inputs == <<variant, db_exists, db_names, db_last, db_prev>>

Query(sql) == [sql |-> sql, conn |-> conn]

\* from the title to the sidebar: the file is looked for, the tables are
\* listed and the two selectboxes get their initial values
Open ==
    /\ pc = "start"
    /\ IF ~path_exists(db_exists)
       THEN /\ outputs' = {"title", "error"}
            /\ error' = "no_db"
            /\ pc' = "no_db"
            /\ UNCHANGED <<conn, opened, queries, tables, sel_last, sel_prev>>
       ELSE LET listed == IF variant = "cloud" THEN get_record_tables_desc(db_names)
                          ELSE get_record_tables(db_names)
            IN /\ opened' = opened + 1
               /\ queries' = Append(queries, [sql |-> "tables", conn |-> "open"])
               /\ tables' = listed
               /\ IF listed = <<>>
                  THEN /\ outputs' = {"title", "info"}
                       /\ error' = "no_tables"
                       /\ conn' = "closed"
                       /\ pc' = "no_tables"
                       /\ UNCHANGED <<sel_last, sel_prev>>
                  ELSE /\ outputs' = {"title"}
                       /\ sel_last' = default_last(listed)
                       /\ sel_prev' = default_prev(listed)
                       /\ conn' = conn_after_listing(variant)
                       /\ pc' = "selected"
                       /\ UNCHANGED error
    /\ UNCHANGED <<inputs, top_n, last_df, prev_df, agg_last, display, display_rounds,
                   comp, comp_display_show, active_players, active_participation>>

\* dashboard.py loads on the connection it holds; dashboard_streamlit.py
\* connects again, loads, closes, and stops if a frame has no rows
LoadTables ==
    /\ pc = "selected"
    /\ last_df' = load_table(db_last)
    /\ prev_df' = load_table(db_prev)
    /\ IF variant = "cloud"
       THEN /\ opened' = opened + 1
            /\ queries' = queries \o <<[sql |-> "load", conn |-> "open"],
                                       [sql |-> "load", conn |-> "open"]>>
            /\ conn' = "closed"
            /\ IF frames_empty(last_df', prev_df')
               THEN /\ outputs' = outputs \cup {"error"}
                    /\ error' = "load_empty"
                    /\ pc' = "load_error"
               ELSE /\ pc' = "loaded"
                    /\ UNCHANGED <<outputs, error>>
       ELSE /\ queries' = queries \o <<Query("load"), Query("load")>>
            /\ pc' = "loaded"
            /\ UNCHANGED <<conn, opened, outputs, error>>
    /\ UNCHANGED <<inputs, tables, sel_last, sel_prev, top_n, agg_last, display,
                   display_rounds, comp, comp_display_show, active_players,
                   active_participation>>

\* the totals, the top-N rows and their rounds; top_n is the sidebar's
\* input, it does not depend on the data and is first read here.  The
\* rounds are read with a query on conn, which raises on a closed connection
Participation ==
    /\ pc = "loaded"
    /\ \E n \in (0 .. MaxTopN) \cup {DefaultTopN} :
       \E sorted \in SortDescending(aggregate(last_df), DamageGeq(aggregate(last_df))) :
          /\ top_n' = n
          /\ agg_last' = with_pct(sorted, SumDamage(last_df))
          /\ display' = IF n > 0 THEN head(agg_last', n) ELSE agg_last'
    /\ queries' = Append(queries, Query("rounds"))
    /\ IF conn # "open"
       THEN /\ outputs' = outputs \cup {"metrics"}
            /\ error' = "closed_db"
            /\ pc' = "raised"
            /\ UNCHANGED display_rounds
       ELSE /\ display_rounds' = merge_left(display', rounds_data(db_last))
            /\ outputs' = outputs \cup {"metrics", "participation"}
            /\ pc' = "participation"
            /\ UNCHANGED error
    /\ UNCHANGED <<inputs, conn, opened, tables, sel_last, sel_prev, last_df, prev_df,
                   comp, comp_display_show, active_players, active_participation>>

Comparison ==
    /\ pc = "participation"
    /\ \E c \in compute_comparison(prev_df, last_df) :
          /\ comp' = c
          /\ comp_display_show' = IF top_n > 0 THEN head(c, top_n) ELSE c
    /\ outputs' = outputs \cup {"comparison"}
    /\ pc' = "comparison"
    /\ UNCHANGED <<inputs, conn, opened, queries, error, tables, sel_last, sel_prev,
                   top_n, last_df, prev_df, agg_last, display, display_rounds,
                   active_players, active_participation>>

ComparisonRaises ==
    /\ pc = "participation"
    /\ apply_may_raise(prev_df, last_df)
    /\ error' = "apply_empty"
    /\ pc' = "raised"
    /\ UNCHANGED <<inputs, conn, opened, queries, outputs, tables, sel_last, sel_prev,
                   top_n, last_df, prev_df, agg_last, display, display_rounds,
                   comp, comp_display_show, active_players, active_participation>>

\* the 21/21 section and the end of main; dashboard.py closes conn there
ActivePlayers ==
    /\ pc = "comparison"
    /\ queries' = Append(queries, Query("active"))
    /\ IF conn # "open"
       THEN /\ error' = "closed_db"
            /\ pc' = "raised"
            /\ UNCHANGED <<conn, outputs, active_players, active_participation>>
       ELSE IF active_rows(db_last) = <<>>
       THEN /\ outputs' = outputs \cup {"no_active"}
            /\ conn' = IF variant = "local" THEN "closed" ELSE conn
            /\ pc' = "done"
            /\ UNCHANGED <<error, active_players, active_participation>>
       ELSE IF active_raises(db_last)
       THEN /\ error' = "stored_damage"
            /\ pc' = "raised"
            /\ UNCHANGED <<conn, outputs, active_players, active_participation>>
       ELSE /\ \E sorted \in SortDescending(active_rows(db_last),
                                            StoredGeq(active_rows(db_last))) :
                  active_players' = sorted
            /\ active_participation' = [num |-> Len(active_rows(db_last)) * 100,
                                        den |-> Len(agg_last)]
            /\ outputs' = outputs \cup {"active"}
            /\ conn' = IF variant = "local" THEN "closed" ELSE conn
            /\ pc' = "done"
            /\ UNCHANGED error
    /\ UNCHANGED <<inputs, opened, tables, sel_last, sel_prev, top_n, last_df, prev_df,
                   agg_last, display, display_rounds, comp, comp_display_show>>

Next ==
    \/ Open
    \/ LoadTables
    \/ Participation
    \/ Comparison
    \/ ComparisonRaises
    \/ ActivePlayers

----------------------------------------------------------------------------
(* Inputs *)

Foo == <<"f", "o", "o">>
FOO == <<"F", "O", "O">>
Bar == <<"b", "a", "r">>
BAR == <<"B", "A", "R">>

Usernames == {Foo, FOO, Bar}

Digit(i) ==
    CASE i = 1 -> "1" [] i = 2 -> "2" [] i = 3 -> "3" [] i = 4 -> "4" [] i = 5 -> "5"

\* the record tables r1, r2, ...
TableName(i) == <<"r", Digit(i)>>

\* the tables of at most max rows
Tables(damages, rounds, max) ==
    UNION {[1 .. n -> [username : Usernames, damage : damages, rounds : rounds]] :
              n \in 0 .. max}

\* A request: the variant that serves it, whether the file exists, the
\* tables it holds (count of them in counts) and the rows of the two tables
\* the selectboxes give.  With one table both selectboxes give that table;
\* without a table there are no rows to read
InitRequest(variants, exists, counts, damages, rounds, max) ==
    /\ variant \in variants
    /\ db_exists \in exists
    /\ db_names \in IF db_exists THEN {{TableName(i) : i \in 1 .. n} : n \in counts}
                    ELSE {{}}
    /\ db_last \in IF db_names = {} THEN {<<>>} ELSE Tables(damages, rounds, max)
    /\ db_prev \in IF db_names = {} THEN {<<>>}
                   ELSE IF Cardinality(db_names) = 1 THEN {db_last}
                   ELSE Tables(damages, rounds, max - Len(db_last))
    /\ pc = "start"
    /\ conn = "none"
    /\ opened = 0
    /\ queries = <<>>
    /\ outputs = {}
    /\ error = ""
    /\ tables = <<>>
    /\ sel_last = <<>>
    /\ sel_prev = <<>>
    /\ top_n = DefaultTopN
    /\ last_df = <<>>
    /\ prev_df = <<>>
    /\ agg_last = <<>>
    /\ display = <<>>
    /\ display_rounds = <<>>
    /\ comp = <<>>
    /\ comp_display_show = <<>>
    /\ active_players = <<>>
    /\ active_participation = [num |-> 0, den |-> 0]

\* the engine on two different tables, read by dashboard.py, every row with
\* all its rounds
InitWith(damages) ==
    InitRequest({"local"}, {TRUE}, {2}, damages, {AllRounds}, MaxRows)

\* noisy, non-negative data: NULL, "n/a", 3, 4
NoisyDamages == {NullDamage, TextDamage, NumDamage(0, 30), NumDamage(0, 40)}

\* numeric extremes: -1.5, 1, 2 * 10^16
WideDamages == {NumDamage(0, -15), NumDamage(0, 10), NumDamage(2, 0)}

Init == InitWith(NoisyDamages)
Spec == Init /\ [][Next]_vars

InitWide == InitWith(WideDamages)
SpecWide == InitWide /\ [][Next]_vars

\* the request as a whole: both variants, the file there or not, none to
\* MaxTables tables, rows with or without damage and rounds
RequestDamages == {NullDamage, TextDamage, NumDamage(0, 30)}
RequestRounds == {AllRounds, NullRounds}

InitMain ==
    InitRequest({"local", "cloud"}, BOOLEAN, 0 .. MaxTables, RequestDamages,
                RequestRounds, MaxRequestRows)
SpecMain == InitMain /\ [][Next]_vars

----------------------------------------------------------------------------
(* Properties *)

names_of(df) == {df[i].name : i \in DOMAIN df}

\* the sum of the damage of the rows of df whose name is k, row by row
RECURSIVE SumOver(_, _)
SumOver(df, I) ==
    IF I = {} THEN Zero
    ELSE LET i == CHOOSE x \in I : TRUE
         IN NAdd(df[i].damage, SumOver(df, I \ {i}))

TotalOf(df, k) == SumOver(df, {i \in DOMAIN df : df[i].name = k})

TotalOr0(df, k) == IF k \in names_of(df) THEN TotalOf(df, k) ELSE Zero

\* C1: compute_comparison returns exactly one row per canonical identifier
\* of the union of the two snapshots' identifiers, none dropped and none
\* duplicated; prev_damage is the identifier's aggregate in prev, or 0 when
\* it is absent from prev, and last_damage likewise for last.
C1_OuterJoinComplete ==
    pc = "comparison" =>
        /\ {comp[i].name : i \in DOMAIN comp} = names_of(prev_df) \cup names_of(last_df)
        /\ Len(comp) = Cardinality(names_of(prev_df) \cup names_of(last_df))
        /\ \A i \in DOMAIN comp :
              /\ comp[i].prev_damage = TotalOr0(prev_df, comp[i].name)
              /\ comp[i].last_damage = TotalOr0(last_df, comp[i].name)

\* a comparison with an identifier only in prev (summed over two rows) and
\* another only in last
C1_Witness ==
    /\ pc = "comparison"
    /\ Len(prev_df) = 2
    /\ names_of(prev_df) = {FOO}
    /\ names_of(last_df) = {BAR}
    /\ \E i \in DOMAIN comp : comp[i].name = FOO /\ NSign(comp[i].prev_damage) > 0

IsInt(v, n) == v = <<0, n>>

\* C2: for every comparison row with non-negative damages: prev > 0 gives
\* the finite pct_change with pct_change * prev = (last - prev) * 100;
\* prev = 0 and last > 0 gives the infinity sentinel; prev = 0 and last = 0
\* gives 0; a drop from a positive prev to last = 0 gives exactly -100.
C2_PctChange ==
    pc = "comparison" =>
        \A i \in DOMAIN comp :
            LET pv == comp[i].prev_damage
                ls == comp[i].last_damage
                p == comp[i].pct_change
            IN (NSign(pv) >= 0 /\ NSign(ls) >= 0) =>
                  /\ NSign(pv) > 0 =>
                        /\ p.kind = "fin"
                        /\ NSign(p.den) > 0
                        /\ NMul(p.num, pv) = NMul(NScale(100, NSub(ls, pv)), p.den)
                  /\ (NSign(pv) = 0 /\ NSign(ls) > 0) => p.kind = "inf"
                  /\ (NSign(pv) = 0 /\ NSign(ls) = 0) =>
                        p.kind = "fin" /\ QCmp(p, Float0) = 0
                  /\ (NSign(pv) > 0 /\ NSign(ls) = 0) =>
                        p.kind = "fin" /\ QCmp(p, Finite(<<0, -100>>, One)) = 0

\* a comparison with a drop from 4 to 0 next to a newcomer
C2_Witness ==
    /\ pc = "comparison"
    /\ \E i, j \in DOMAIN comp :
          /\ IsInt(comp[i].prev_damage, 4) /\ IsInt(comp[i].last_damage, 0)
          /\ IsInt(comp[j].prev_damage, 0) /\ IsInt(comp[j].last_damage, 3)

\* C3: every comparison row has exactly one label of new, up, down, same,
\* fixed by pct_change alone: new iff it is the sentinel, up iff finite and
\* > 0, down iff < 0, same iff = 0.
C3_TrendLabel ==
    pc = "comparison" =>
        \A i \in DOMAIN comp :
            LET p == comp[i].pct_change
                c == comp[i].change
            IN /\ c \in {"new", "up", "down", "same"}
               /\ (c = "new") <=> (p.kind = "inf")
               /\ (c = "up") <=> (p.kind = "fin" /\ QCmp(p, Float0) > 0)
               /\ (c = "down") <=> (p.kind = "fin" /\ QCmp(p, Float0) < 0)
               /\ (c = "same") <=> (p.kind = "fin" /\ QCmp(p, Float0) = 0)

\* a comparison with an unchanged participant (3 -> 3) and a new one
C3_Witness ==
    /\ pc = "comparison"
    /\ \E i, j \in DOMAIN comp :
          /\ comp[i].change = "same" /\ IsInt(comp[i].prev_damage, 3)
          /\ comp[j].change = "new"

\* aggregate(df) has one row per distinct name of df, holding the sum of the
\* damage of the rows of df with that name
OneRowPerName(df) ==
    LET agg == aggregate(df)
    IN /\ {agg[i].name : i \in DOMAIN agg} = names_of(df)
       /\ Len(agg) = Cardinality(names_of(df))
       /\ \A i \in DOMAIN agg : agg[i].damage = TotalOf(df, agg[i].name)

SameLetter(c, d) ==
    \/ Code(c) = Code(d)
    \/ Code(c) = Code(d) + 32
    \/ Code(d) = Code(c) + 32

DifferOnlyInCase(u, v) ==
    /\ Len(u) = Len(v)
    /\ \A i \in DOMAIN u : SameLetter(u[i], v[i])

IsUpperCase(s) == \A i \in DOMAIN s : Code(s[i]) < 97

\* the two tables with the frames load_table made of them
Loaded == {<<db_prev, prev_df>>, <<db_last, last_df>>}

\* C5: two raw rows whose usernames differ only in letter case get the same
\* canonical key, the uppercase form, in load_table, and aggregate sums them
\* into a single row; "foo" with 3 and "FOO" with 4 give the single row
\* (FOO, 7).
C5_CaseInsensitive ==
    pc = "comparison" =>
        /\ \A t \in Loaded :
              LET db == t[1]
                  df == t[2]
                  agg == aggregate(df)
              IN /\ \A i, j \in DOMAIN db :
                       DifferOnlyInCase(db[i].username, db[j].username) =>
                           /\ df[i].name = df[j].name
                           /\ IsUpperCase(df[i].name)
                           /\ DifferOnlyInCase(df[i].name, db[i].username)
                 /\ \A i \in DOMAIN db :
                       \E r \in DOMAIN agg :
                           /\ agg[r].name = df[i].name
                           /\ \A q \in DOMAIN agg : agg[q].name = df[i].name => q = r
                           /\ agg[r].damage =
                                 SumOver(df, {m \in DOMAIN db :
                                     DifferOnlyInCase(db[m].username, db[i].username)})
        /\ db_last = <<[username |-> Foo, damage |-> NumDamage(0, 30), rounds |-> AllRounds],
                       [username |-> FOO, damage |-> NumDamage(0, 40), rounds |-> AllRounds]>>
              => aggregate(last_df) = <<[name |-> FOO, damage |-> <<0, 7>>]>>

\* the snapshot foo 3, FOO 4 aggregated as the participation table
C5_Witness ==
    /\ pc = "comparison"
    /\ db_last = <<[username |-> Foo, damage |-> NumDamage(0, 30), rounds |-> AllRounds],
                   [username |-> FOO, damage |-> NumDamage(0, 40), rounds |-> AllRounds]>>
    /\ Len(agg_last) = 1
    /\ agg_last[1].damage = <<0, 7>>

IsMalformed(d) == d.kind \in {"null", "text"}

\* C6: a row whose damage is missing or non-numeric is kept by load_table
\* with the integer damage 0, so it adds 0 to its participant's total while
\* the participant's other rows count in full.
C6_MalformedDamage ==
    pc = "comparison" =>
        \A t \in Loaded :
            LET db == t[1]
                df == t[2]
                agg == aggregate(df)
            IN /\ Len(df) = Len(db)
               /\ \A i \in DOMAIN db :
                     /\ df[i].username = db[i].username
                     /\ IsMalformed(db[i].damage) => df[i].damage = Zero
                     /\ (db[i].damage.kind = "num" /\ db[i].damage.tenths % 10 = 0) =>
                           df[i].damage = <<db[i].damage.hi, db[i].damage.tenths \div 10>>
               /\ \A r \in DOMAIN agg :
                     agg[r].damage =
                        SumOver(df, {m \in DOMAIN db :
                            df[m].name = agg[r].name /\ ~IsMalformed(db[m].damage)})

\* one participant with the damages "n/a", 4 and NULL, totalling 4
C6_Witness ==
    /\ pc = "comparison"
    /\ db_last = <<[username |-> Foo, damage |-> TextDamage, rounds |-> AllRounds],
                   [username |-> FOO, damage |-> NumDamage(0, 40), rounds |-> AllRounds],
                   [username |-> Foo, damage |-> NullDamage, rounds |-> AllRounds]>>
    /\ Len(last_df) = 3
    /\ agg_last[1].damage = <<0, 4>>

IsNewRow(r) == r.change = "new"
IsFinitePositive(r) == r.pct_change.kind = "fin" /\ QCmp(r.pct_change, Float0) > 0

\* C7: the rows of compute_comparison are in non-increasing order of
\* pct_change with the sentinel compared as 1e18, and every row labelled new
\* comes before every row with a finite positive pct_change.
C7_NewRowsFirst ==
    pc = "comparison" =>
        /\ \A i, j \in DOMAIN comp :
              i < j => QCmp(sort_key(comp[i].pct_change), sort_key(comp[j].pct_change)) >= 0
        /\ \A i, j \in DOMAIN comp :
              (IsNewRow(comp[i]) /\ IsFinitePositive(comp[j])) => i < j

TopNOf(shown, full, n) ==
    /\ n = 0 => shown = full
    /\ n >= Len(full) => shown = full
    /\ (0 < n /\ n < Len(full)) =>
          /\ Len(shown) = n
          /\ \A i \in 1 .. n : shown[i] = full[i]

\* C8: top-N of the sorted aggregate rows and of the sorted comparison rows:
\* N = 0 gives the full set in its order, N >= size gives the full set
\* unmodified, 0 < N < size gives exactly the first N rows in order.
C8_TopN ==
    /\ pc \in {"participation", "comparison", "raised"} => TopNOf(display, agg_last, top_n)
    /\ pc = "comparison" => TopNOf(comp_display_show, comp, top_n)

\* top-1 of two aggregate rows and of two comparison rows
C8_Witness ==
    /\ pc = "comparison"
    /\ top_n = 1
    /\ Len(agg_last) = 2 /\ Len(display) = 1
    /\ Len(comp) = 2 /\ Len(comp_display_show) = 1

\* C9 as stated: when the previous snapshot has no rows, every participant
\* of the current snapshot is classified new.
C9_AllNew ==
    (pc = "comparison" /\ prev_df = <<>>) =>
        /\ {comp[i].name : i \in DOMAIN comp} = names_of(last_df)
        /\ \A i \in DOMAIN comp : comp[i].change = "new"

\* C9 as amended: when the previous snapshot has no rows, every participant
\* of the current snapshot has a row, classified new when its last_damage
\* is positive and same otherwise.
C9_NewWhenPositive ==
    (pc = "comparison" /\ prev_df = <<>>) =>
        /\ {comp[i].name : i \in DOMAIN comp} = names_of(last_df)
        /\ \A i \in DOMAIN comp :
              /\ comp[i].prev_damage = Zero
              /\ NSign(comp[i].last_damage) > 0 => comp[i].change = "new"
              /\ NSign(comp[i].last_damage) <= 0 => comp[i].change = "same"

\* an empty previous snapshot against a current one with a participant of
\* positive damage and one whose damage is 0
C9_Witness ==
    /\ pc = "comparison"
    /\ prev_df = <<>>
    /\ \E i, j \in DOMAIN comp :
          /\ comp[i].change = "new" /\ NSign(comp[i].last_damage) > 0
          /\ comp[j].change = "same" /\ NSign(comp[j].last_damage) = 0

Minus100 == Finite(<<0, -100>>, One)

\* C10 as stated: when the current snapshot has no rows, every participant
\* of the previous snapshot gets last_damage = 0 and is classified down,
\* with pct_change = -100 when its prev_damage > 0.
C10_AllDown ==
    (pc = "comparison" /\ last_df = <<>>) =>
        /\ {comp[i].name : i \in DOMAIN comp} = names_of(prev_df)
        /\ \A i \in DOMAIN comp :
              /\ comp[i].last_damage = Zero
              /\ comp[i].change = "down"
              /\ NSign(comp[i].prev_damage) > 0 =>
                    comp[i].pct_change.kind = "fin" /\ QCmp(comp[i].pct_change, Minus100) = 0

\* C10 as amended: when the current snapshot has no rows, every participant
\* of the previous snapshot gets last_damage = 0; it is classified down with
\* pct_change = -100 when its prev_damage > 0, and same with pct_change = 0
\* otherwise.
C10_DownWhenPositive ==
    (pc = "comparison" /\ last_df = <<>>) =>
        /\ {comp[i].name : i \in DOMAIN comp} = names_of(prev_df)
        /\ \A i \in DOMAIN comp :
              /\ comp[i].last_damage = Zero
              /\ NSign(comp[i].prev_damage) > 0 =>
                    /\ comp[i].change = "down"
                    /\ comp[i].pct_change.kind = "fin"
                    /\ QCmp(comp[i].pct_change, Minus100) = 0
              /\ NSign(comp[i].prev_damage) <= 0 =>
                    /\ comp[i].change = "same"
                    /\ comp[i].pct_change.kind = "fin"
                    /\ QCmp(comp[i].pct_change, Float0) = 0

\* an empty current snapshot against a previous one with a participant of
\* positive damage and one whose damage is 0
C10_Witness ==
    /\ pc = "comparison"
    /\ last_df = <<>>
    /\ \E i, j \in DOMAIN comp :
          /\ comp[i].change = "down" /\ NSign(comp[i].prev_damage) > 0
          /\ comp[j].change = "same" /\ NSign(comp[j].prev_damage) = 0

\* C18: for every pair of integer aggregates, negative ones included, the
\* label agrees with the direction of change: same only if last_damage =
\* prev_damage, down only if last_damage < prev_damage, up or new only if
\* last_damage > prev_damage.
C18_LabelFollowsDirection ==
    pc = "comparison" =>
        \A i \in DOMAIN comp :
            LET prev == comp[i].prev_damage
                last == comp[i].last_damage
                c == comp[i].change
            IN /\ (c = "same") => (last = prev)
               /\ (c = "down") => NLess(last, prev)
               /\ (c \in {"up", "new"}) => NLess(prev, last)

Stopped == {"no_db", "no_tables", "load_error", "raised", "done"}

\* C11: in both variants a request whose data source exists and lists at
\* least one snapshot is never stopped because of what the snapshots hold:
\* it stops early for no reason at all, and when it ends the comparison has
\* been computed and rendered.
C11_ContentNeverAborts ==
    (db_exists /\ db_names # {}) =>
        /\ error = ""
        /\ pc \in Stopped => (pc = "done" /\ "comparison" \in outputs)

\* the paths on which main returns (an exception is not a return)
Returned == {"no_db", "no_tables", "load_error", "done"}

\* C12: in both variants every query is issued on a connection that is
\* open at that moment, none after its close(), and on every return path of
\* main the connection that was opened has been closed.
C12_QueriesOnOpenConnection ==
    /\ \A i \in DOMAIN queries : queries[i].conn = "open"
    /\ pc \in Returned => conn # "open"

\* the stored damage of a row, coerced as load_table does it
Coerced(d) == astype_int64(fillna0(to_numeric(d)))

\* C13: across the whole request a non-numeric or missing damage of the
\* current snapshot is treated as 0 and never makes the request fail: no
\* request stops on a stored damage, and every damage shown in the 21/21
\* section is a number equal to its integer coercion.
C13_DamageAlwaysCoerced ==
    /\ error # "stored_damage"
    /\ \A i \in DOMAIN active_players :
          LET d == active_players[i].damage
          IN d.kind = "num" /\ <<d.hi, d.tenths>> = NScale(10, Coerced(d))

\* the lexicographically greatest name of a non-empty set
Greatest(S) == CHOOSE x \in S : \A y \in S \ {x} : StrLess(y, x)

\* C14: in both variants, with two or more snapshots the current snapshot
\* is by default the one with the lexicographically greatest name and the
\* previous one the second greatest; with exactly one snapshot both are
\* that snapshot.
C14_DefaultSelection ==
    tables # <<>> =>
        /\ sel_last = Greatest(db_names)
        /\ sel_prev = IF Cardinality(db_names) >= 2
                      THEN Greatest(db_names \ {Greatest(db_names)})
                      ELSE Greatest(db_names)

\* C15: when the data source file does not exist the request reports an
\* error and stops: no connection is opened, no snapshot is listed or
\* loaded, no aggregate or comparison is computed, and nothing but the
\* title and the error is rendered, before or after it.
C15_MissingSourceStops ==
    (~db_exists /\ pc # "start") =>
        /\ pc = "no_db"
        /\ error = "no_db"
        /\ outputs = {"title", "error"}
        /\ conn = "none" /\ opened = 0
        /\ queries = <<>> /\ tables = <<>>
        /\ last_df = <<>> /\ prev_df = <<>>
        /\ agg_last = <<>> /\ display = <<>> /\ display_rounds = <<>>
        /\ comp = <<>> /\ comp_display_show = <<>>
        /\ active_players = <<>>

\* a request of the cloud variant that found no file and has stopped
C15_Witness ==
    /\ ~db_exists
    /\ variant = "cloud"
    /\ pc = "no_db"
    /\ "error" \in outputs

\* C16: the participation table that is rendered has exactly one row per
\* participant selected by top-N, so at most N rows for N > 0 and at most
\* the number of aggregate rows for N = 0, also when a participant has
\* several rows in the current snapshot: attaching the rounds adds no row.
C16_RoundsAddNoRow ==
    "participation" \in outputs =>
        /\ Len(display_rounds) = Len(display)
        /\ \A i \in DOMAIN display_rounds : display_rounds[i].name = display[i].name
        /\ top_n > 0 => Len(display_rounds) <= top_n
        /\ top_n = 0 => Len(display_rounds) <= Len(agg_last)

\* C17: the active-participation percentage of the 21/21 section, the
\* number of rows with rounds = 21/21 over the number of aggregate rows of
\* the current snapshot, times 100, is between 0 and 100, and its divisor
\* is not 0 when the section is rendered.
C17_ActiveParticipationBounded ==
    "active" \in outputs =>
        /\ active_participation.den > 0
        /\ 0 <= active_participation.num
        /\ active_participation.num <= 100 * active_participation.den

====
